---- MODULE Spec2Model ----
(***************************************************************************)
(* Model of src/app.py, the upload-driven sales analytics dashboard:       *)
(* the two loaders (load_sales_data, load_sku_data), calculate_metrics,    *)
(* the group aggregations, the client-status classifier, the monthly       *)
(* growth computation and the control flow of main.                        *)
(*                                                                         *)
(* A column name is a sequence of one-character strings, so that strip,    *)
(* upper and replace are computed character by character.  A cell is a     *)
(* record [k, n, d]: k = "num" is the rational n/d, "inf" is +-infinity    *)
(* (sign n), "nan" is the missing marker NaN, "str" is text that does not  *)
(* parse as a number, "date" is a calendar day n = yyyymmdd, "nat" is the  *)
(* missing date NaT, "ym" is a period key n = yyyymm.                      *)
(***************************************************************************)
EXTENDS Integers, Sequences, FiniteSets, TLC

VARIABLES
    sales_file,     \* the uploaded sales file: <<>> (none) or <<file>>
    sku_file,       \* the uploaded SKU file: <<>> (none) or <<file>>
    top_n,          \* slider "Show Top N Reps"
    top_n_cust,     \* slider "Show Top N Customers"
    top_n_sku,      \* slider "Show Top N Products"
    df_sales,       \* <<>> (not loaded) or <<frame>>
    df_sku,         \* <<>> (None) or <<frame>>
    metrics,        \* <<>> or <<the dict calculate_metrics returned>>
    rep_perf,       \* <<>> or <<rows of the rep aggregation>>
    customer_last,  \* <<>> or <<rows of the client-status table>>
    cust_perf,      \* <<>> or <<rows of the customer aggregation>>
    sku_perf,       \* <<>> or <<rows of the SKU aggregation>>
    monthly,        \* <<>> or <<rows of the monthly table>>
    avg_growth,     \* <<>> or <<the average monthly growth>>
    page,           \* what the run has rendered so far, in order
    exc,            \* "none", or the call that raised
    pc              \* position of the run

inputs == <<sales_file, sku_file, top_n, top_n_cust, top_n_sku>>

frames == <<df_sales, df_sku>>

tables == <<metrics, rep_perf, customer_last, cust_perf, sku_perf, monthly, avg_growth>>

vars == <<inputs, frames, tables, page, exc, pc>>

----------------------------------------------------------------------------
(* Numbers as pandas/numpy hold them: rationals, +-inf and NaN.            *)

Abs(x) ==
    IF x < 0 THEN -x ELSE x

RECURSIVE Gcd(_, _)
Gcd(a, b) ==
    IF b = 0 THEN a ELSE Gcd(b, a % b)

Frac(n, d) ==
    LET g == Gcd(Abs(n), Abs(d))
        s == IF d < 0 THEN -1 ELSE 1
    IN  [k |-> "num", n |-> (s * n) \div g, d |-> (s * d) \div g]

Num(i) ==
    [k |-> "num", n |-> i, d |-> 1]

NaN ==
    [k |-> "nan", n |-> 0, d |-> 1]

Inf(s) ==
    [k |-> "inf", n |-> s, d |-> 1]

Str ==
    [k |-> "str", n |-> 0, d |-> 1]

\* a text cell; n orders texts as Python orders the strings
Text(i) ==
    [k |-> "str", n |-> i, d |-> 1]

NaT ==
    [k |-> "nat", n |-> 0, d |-> 1]

Date(yyyymmdd) ==
    [k |-> "date", n |-> yyyymmdd, d |-> 1]

Sign(a) ==
    IF a.n > 0 THEN 1 ELSE IF a.n < 0 THEN -1 ELSE 0

\* float addition
Add(a, b) ==
    CASE a.k = "nan" \/ b.k = "nan" -> NaN
      [] a.k = "inf" /\ b.k = "inf" -> IF a.n = b.n THEN a ELSE NaN
      [] a.k = "inf" -> a
      [] b.k = "inf" -> b
      [] OTHER -> Frac(a.n * b.d + b.n * a.d, a.d * b.d)

\* float multiplication
Mul(a, b) ==
    CASE a.k = "nan" \/ b.k = "nan" -> NaN
      [] a.k = "inf" \/ b.k = "inf" ->
            IF Sign(a) * Sign(b) = 0 THEN NaN ELSE Inf(Sign(a) * Sign(b))
      [] OTHER -> Frac(a.n * b.n, a.d * b.d)

\* float division (numpy: x/0 is +-inf, 0/0 is NaN)
Div(a, b) ==
    CASE a.k = "nan" \/ b.k = "nan" -> NaN
      [] a.k = "inf" /\ b.k = "inf" -> NaN
      [] a.k = "inf" -> Inf(IF b.n < 0 THEN -a.n ELSE a.n)
      [] b.k = "inf" -> Num(0)
      [] b.n = 0 -> IF a.n = 0 THEN NaN ELSE Inf(Sign(a))
      [] OTHER -> Frac(a.n * b.d, a.d * b.n)

\* Series.sum(): skipna, the empty sum is 0
RECURSIVE SeriesSum(_)
SeriesSum(s) ==
    IF s = <<>> THEN Num(0)
    ELSE IF Head(s).k = "nan" THEN SeriesSum(Tail(s))
    ELSE Add(Head(s), SeriesSum(Tail(s)))

\* the cells of a series that are not missing
NotNull(s) ==
    SelectSeq(s, LAMBDA c : c.k # "nan" /\ c.k # "nat")

\* Series.mean(): skipna, the mean of nothing is NaN
SeriesMean(s) ==
    IF NotNull(s) = <<>> THEN NaN
    ELSE Div(SeriesSum(s), Num(Len(NotNull(s))))

\* Series.nunique(): the distinct values, the missing marker not counted
SeriesNUnique(s) ==
    Cardinality({NotNull(s)[i] : i \in 1..Len(NotNull(s))})

----------------------------------------------------------------------------
(* Strings: str.strip(), str.upper(), str.replace(' ', '_').               *)

LowerCase ==
    <<"a","b","c","d","e","f","g","h","i","j","k","l","m",
      "n","o","p","q","r","s","t","u","v","w","x","y","z">>

UpperCase ==
    <<"A","B","C","D","E","F","G","H","I","J","K","L","M",
      "N","O","P","Q","R","S","T","U","V","W","X","Y","Z">>

RECURSIVE StrStrip(_)
StrStrip(s) ==
    IF s = <<>> THEN s
    ELSE IF Head(s) = " " THEN StrStrip(Tail(s))
    ELSE IF s[Len(s)] = " " THEN StrStrip(SubSeq(s, 1, Len(s) - 1))
    ELSE s

UpperChar(c) ==
    IF \E i \in 1..26 : LowerCase[i] = c
    THEN UpperCase[CHOOSE i \in 1..26 : LowerCase[i] = c]
    ELSE c

StrUpper(s) ==
    [i \in 1..Len(s) |-> UpperChar(s[i])]

StrReplace(s, old, new) ==
    [i \in 1..Len(s) |-> IF s[i] = old THEN new ELSE s[i]]

----------------------------------------------------------------------------
(* Column names of the source.                                             *)

ORDER_DATE ==
    <<"O","R","D","E","R","_","D","A","T","E">>
DATE ==
    <<"D","A","T","E">>
CREATION_DATE ==
    <<"C","R","E","A","T","I","O","N","_","D","A","T","E">>
TOTAL_ITEM ==
    <<"T","O","T","A","L","_","I","T","E","M">>
TOTAL_VALUES ==
    <<"T","O","T","A","L","_","V","A","L","U","E","S">>
TOTAL_COMMISSION ==
    <<"T","O","T","A","L","_","C","O","M","M","I","S","S","I","O","N">>
YEAR_MONTH ==
    <<"Y","E","A","R","_","M","O","N","T","H">>
YEAR ==
    <<"Y","E","A","R">>
MONTH ==
    <<"M","O","N","T","H">>
QUARTER ==
    <<"Q","U","A","R","T","E","R">>
MATRIX_ORDER_ID ==
    <<"M","A","T","R","I","X","_","O","R","D","E","R","_","I","D">>
ORDER_ID ==
    <<"O","R","D","E","R","_","I","D">>
ORDER_LINES_PRODUCT_REFERENCE ==
    <<"O","R","D","E","R","_","L","I","N","E","S","/","P","R","O","D","U","C","T","/",
      "R","E","F","E","R","E","N","C","E">>
SKU ==
    <<"S","K","U">>
ORDER_LINES_PRODUCT_NAME ==
    <<"O","R","D","E","R","_","L","I","N","E","S","/","P","R","O","D","U","C","T","/",
      "N","A","M","E">>
PRODUCT_NAME ==
    <<"P","R","O","D","U","C","T","_","N","A","M","E">>
ORDER_LINES_QUANTITY ==
    <<"O","R","D","E","R","_","L","I","N","E","S","/","Q","U","A","N","T","I","T","Y">>
QUANTITY ==
    <<"Q","U","A","N","T","I","T","Y">>
ORDER_LINES_UNIT_PRICE ==
    <<"O","R","D","E","R","_","L","I","N","E","S","/","U","N","I","T","_","P","R","I","C","E">>
UNIT_PRICE ==
    <<"U","N","I","T","_","P","R","I","C","E">>
ORDER_LINES_TOTAL ==
    <<"O","R","D","E","R","_","L","I","N","E","S","/","T","O","T","A","L">>
LINE_TOTAL ==
    <<"L","I","N","E","_","T","O","T","A","L">>
CUSTOMER_ID ==
    <<"C","U","S","T","O","M","E","R","_","I","D">>
SALE_REPRESENTATIVE ==
    <<"S","A","L","E","_","R","E","P","R","E","S","E","N","T","A","T","I","V","E">>
ORDER_NUMBER ==
    <<"O","R","D","E","R","_","N","U","M","B","E","R">>
CUSTOMER_NAME ==
    <<"C","U","S","T","O","M","E","R","_","N","A","M","E">>
CITY ==
    <<"C","I","T","Y">>
STATUS ==
    <<"S","T","A","T","U","S">>

----------------------------------------------------------------------------
(* Data frames: [columns |-> sequence of names, rows |-> sequence of rows, *)
(* each row a sequence of cells, one per column].  Labels may repeat.      *)

ColIdx(df, c) ==
    {i \in 1..Len(df.columns) : df.columns[i] = c}

\* `c in df.columns`
HasCol(df, c) ==
    ColIdx(df, c) # {}

\* df[c] is a Series only when the label is unique; otherwise a DataFrame
IsSeries(df, c) ==
    Cardinality(ColIdx(df, c)) = 1

\* df[c] as the sequence of its cells (label unique)
Col(df, c) ==
    LET i == CHOOSE j \in ColIdx(df, c) : TRUE
    IN  [r \in 1..Len(df.rows) |-> df.rows[r][i]]

\* df[c] = values: overwrite the column, or append it when the label is new
SetCol(df, c, values) ==
    IF HasCol(df, c)
    THEN [df EXCEPT !.rows =
            [r \in 1..Len(df.rows) |->
                [i \in 1..Len(df.columns) |->
                    IF df.columns[i] = c THEN values[r] ELSE df.rows[r][i]]]]
    ELSE [columns |-> Append(df.columns, c),
          rows |-> [r \in 1..Len(df.rows) |-> Append(df.rows[r], values[r])]]

\* df.rename(columns={old: new}, inplace=True)
Rename(df, old, new) ==
    [df EXCEPT !.columns =
        [i \in 1..Len(df.columns) |->
            IF df.columns[i] = old THEN new ELSE df.columns[i]]]

Map(s, Op(_)) ==
    [i \in 1..Len(s) |-> Op(s[i])]

----------------------------------------------------------------------------
(* Cell conversions of pandas.                                             *)

\* pd.to_numeric(errors='coerce') on one cell: a number (inf included) is
\* kept, everything that does not parse becomes NaN
ToNumericCell(c) ==
    IF c.k \in {"num", "inf"} THEN c ELSE NaN

\* Series.fillna(0) on one cell: only the missing marker is replaced
FillNaCell(c) ==
    IF c.k = "nan" THEN Num(0) ELSE c

\* pd.to_numeric(series, errors='coerce').fillna(0)
ToNumericFillna(s) ==
    [i \in 1..Len(s) |-> FillNaCell(ToNumericCell(s[i]))]

\* pd.to_datetime(errors='coerce') on one cell: a date is kept, a small
\* number is nanoseconds after the epoch, everything else becomes NaT
ToDatetimeCell(c) ==
    CASE c.k = "date" -> c
      [] c.k = "num" -> Date(19700101)
      [] OTHER -> NaT

ToDatetime(s) ==
    [i \in 1..Len(s) |-> ToDatetimeCell(s[i])]

\* .dt.to_period('M').astype(str): 'YYYY-MM' as yyyymm; NaT gives the text
\* 'NaT', which Python orders after every 'YYYY-MM' (n = 999999)
YearMonthCell(c) ==
    IF c.k = "date" THEN [k |-> "ym", n |-> c.n \div 100, d |-> 1]
    ELSE [k |-> "ym", n |-> 999999, d |-> 1]

\* .dt.year
YearCell(c) ==
    IF c.k = "date" THEN Num(c.n \div 10000) ELSE NaN

\* .dt.month
MonthCell(c) ==
    IF c.k = "date" THEN Num((c.n \div 100) % 100) ELSE NaN

\* .dt.quarter
QuarterCell(c) ==
    IF c.k = "date" THEN Num((((c.n \div 100) % 100) - 1) \div 3 + 1) ELSE NaN

----------------------------------------------------------------------------
(* The loaders.  A step yields [df, exc]; a step after an exception is     *)
(* skipped (the exception leaves the function).                            *)

Ok(df) ==
    [df |-> df, exc |-> "none"]

Raise(df, what) ==
    [df |-> df, exc |-> what]

Then(r, Step(_)) ==
    IF r.exc # "none" THEN r ELSE Step(r.df)

\* app.py:47  df.columns.str.strip().str.upper().str.replace(' ', '_')
SalesColumnName(h) ==
    StrReplace(StrUpper(StrStrip(h)), " ", "_")

SalesStandardize(df) ==
    Ok([df EXCEPT !.columns = Map(df.columns, SalesColumnName)])

date_cols ==
    <<ORDER_DATE, DATE, CREATION_DATE>>

\* app.py:51-55  the first candidate present is converted and copied; break
SalesConvertDate(df) ==
    LET present == {i \in 1..Len(date_cols) : HasCol(df, date_cols[i])}
    IN  IF present = {} THEN Ok(df)
        ELSE LET first == CHOOSE i \in present : \A j \in present : i <= j
                 col == date_cols[first]
             IN  IF ~IsSeries(df, col) THEN Raise(df, "to_datetime")
                 ELSE LET d1 == SetCol(df, col, ToDatetime(Col(df, col)))
                      IN  Ok(SetCol(d1, ORDER_DATE, Col(d1, col)))

sales_numeric_cols ==
    <<TOTAL_ITEM, TOTAL_VALUES, TOTAL_COMMISSION>>

\* for col in cols: if col in df.columns: df[col] = to_numeric(df[col]).fillna(0)
RECURSIVE ConvertNumeric(_, _)
ConvertNumeric(df, cols) ==
    IF cols = <<>> THEN Ok(df)
    ELSE LET col == Head(cols)
         IN  IF ~HasCol(df, col) THEN ConvertNumeric(df, Tail(cols))
             ELSE IF ~IsSeries(df, col) THEN Raise(df, "to_numeric")
             ELSE ConvertNumeric(SetCol(df, col, ToNumericFillna(Col(df, col))),
                                 Tail(cols))

SalesConvertNumeric(df) ==
    ConvertNumeric(df, sales_numeric_cols)

\* app.py:64-68
SalesTimeDimensions(df) ==
    IF ~HasCol(df, ORDER_DATE) THEN Ok(df)
    ELSE LET od == Col(df, ORDER_DATE)
             d1 == SetCol(df, YEAR_MONTH, Map(od, YearMonthCell))
             d2 == SetCol(d1, YEAR, Map(od, YearCell))
             d3 == SetCol(d2, MONTH, Map(od, MonthCell))
         IN  Ok(SetCol(d3, QUARTER, Map(od, QuarterCell)))

\* app.py:39-70
load_sales_data(file) ==
    Then(Then(Then(SalesStandardize(file), SalesConvertDate),
              SalesConvertNumeric), SalesTimeDimensions)

\* app.py:80  df.columns.str.strip().str.upper()
SkuColumnName(h) ==
    StrUpper(StrStrip(h))

SkuStandardize(df) ==
    Ok([df EXCEPT !.columns = Map(df.columns, SkuColumnName)])

\* app.py:83-91, in the dict's insertion order
column_mapping ==
    << <<MATRIX_ORDER_ID, ORDER_ID>>,
       <<CREATION_DATE, ORDER_DATE>>,
       <<ORDER_LINES_PRODUCT_REFERENCE, SKU>>,
       <<ORDER_LINES_PRODUCT_NAME, PRODUCT_NAME>>,
       <<ORDER_LINES_QUANTITY, QUANTITY>>,
       <<ORDER_LINES_UNIT_PRICE, UNIT_PRICE>>,
       <<ORDER_LINES_TOTAL, LINE_TOTAL>> >>

\* app.py:94-95  one alias: renamed whenever the alias header is present
RenameAlias(df, old, new) ==
    IF HasCol(df, old) THEN Rename(df, old, new) ELSE df

RECURSIVE ApplyMapping(_, _)
ApplyMapping(df, mapping) ==
    IF mapping = <<>> THEN df
    ELSE ApplyMapping(RenameAlias(df, Head(mapping)[1], Head(mapping)[2]),
                      Tail(mapping))

SkuRename(df) ==
    Ok(ApplyMapping(df, column_mapping))

sku_numeric_cols ==
    <<QUANTITY, UNIT_PRICE, LINE_TOTAL>>

SkuConvertNumeric(df) ==
    ConvertNumeric(df, sku_numeric_cols)

\* app.py:103  the table-wide test
LineTotalMissing(df) ==
    HasCol(df, LINE_TOTAL) /\ SeriesSum(Col(df, LINE_TOTAL)) = Num(0)

\* a variant of SkuCalcTotal: the test made row by row (a zero total is recomputed)
SkuCalcTotalPerRow(df) ==
    IF HasCol(df, LINE_TOTAL) /\ HasCol(df, QUANTITY) /\ HasCol(df, UNIT_PRICE)
    THEN Ok(SetCol(df, LINE_TOTAL,
                   [r \in 1..Len(df.rows) |->
                        IF Col(df, LINE_TOTAL)[r] = Num(0)
                        THEN Mul(Col(df, QUANTITY)[r], Col(df, UNIT_PRICE)[r])
                        ELSE Col(df, LINE_TOTAL)[r]]))
    ELSE Ok(df)

\* app.py:103-105
SkuCalcTotal(df) ==
    IF LineTotalMissing(df) /\ HasCol(df, QUANTITY) /\ HasCol(df, UNIT_PRICE)
    THEN Ok(SetCol(df, LINE_TOTAL,
                   [r \in 1..Len(df.rows) |->
                        Mul(Col(df, QUANTITY)[r], Col(df, UNIT_PRICE)[r])]))
    ELSE Ok(df)

\* app.py:108-110
SkuDates(df) ==
    IF ~HasCol(df, ORDER_DATE) THEN Ok(df)
    ELSE IF ~IsSeries(df, ORDER_DATE) THEN Raise(df, "to_datetime")
    ELSE LET d1 == SetCol(df, ORDER_DATE, ToDatetime(Col(df, ORDER_DATE)))
         IN  Ok(SetCol(d1, YEAR_MONTH, Map(Col(d1, ORDER_DATE), YearMonthCell)))

\* app.py:73-112
load_sku_data(file) ==
    Then(Then(Then(Then(SkuStandardize(file), SkuRename),
                   SkuConvertNumeric), SkuCalcTotal), SkuDates)

----------------------------------------------------------------------------
(* Uploaded files: raw headers as they stand in the file (read_csv and     *)
(* read_excel keep raw headers distinct) and rows of raw cells.            *)

Hdr_Total_Values ==
    <<"T","o","t","a","l"," ","V","a","l","u","e","s">>
Hdr_total_values_padded ==
    <<" ","t","o","t","a","l","_","v","a","l","u","e","s"," ">>
Hdr_Total_Values_hyphen ==
    <<"T","o","t","a","l","-","V","a","l","u","e","s">>
Hdr_Order_Date ==
    <<"O","r","d","e","r"," ","D","a","t","e">>
Hdr_Date ==
    <<"D","a","t","e">>
Hdr_creation_date ==
    <<"c","r","e","a","t","i","o","n","_","d","a","t","e">>
Hdr_Total_Item ==
    <<"T","o","t","a","l"," ","I","t","e","m">>
Hdr_total_commission ==
    <<"t","o","t","a","l"," ","c","o","m","m","i","s","s","i","o","n">>
Hdr_Customer_ID ==
    <<"C","u","s","t","o","m","e","r"," ","I","D">>
Hdr_Sale_Representative ==
    <<"S","a","l","e"," ","R","e","p","r","e","s","e","n","t","a","t","i","v","e">>
Hdr_Order_Number ==
    <<"O","r","d","e","r"," ","N","u","m","b","e","r">>
Hdr_Customer_Name ==
    <<"C","u","s","t","o","m","e","r"," ","N","a","m","e">>
Hdr_City ==
    <<"C","i","t","y">>
Hdr_Quantity ==
    <<"Q","u","a","n","t","i","t","y">>
Hdr_Unit_Price ==
    <<"U","n","i","t"," ","P","r","i","c","e">>
Hdr_unit_price ==
    <<"u","n","i","t","_","p","r","i","c","e">>
Hdr_order_lines_quantity ==
    <<"o","r","d","e","r","_","l","i","n","e","s","/","q","u","a","n","t","i","t","y">>
Hdr_order_lines_unit_price ==
    <<"o","r","d","e","r","_","l","i","n","e","s","/","u","n","i","t","_","p","r","i",
      "c","e">>
Hdr_order_lines_total ==
    <<"o","r","d","e","r","_","l","i","n","e","s","/","t","o","t","a","l">>
Hdr_line_total ==
    <<"l","i","n","e","_","t","o","t","a","l">>
Hdr_Line_Total_hyphen ==
    <<"L","i","n","e","-","T","o","t","a","l">>
Hdr_matrix_order_id ==
    <<"m","a","t","r","i","x","_","o","r","d","e","r","_","i","d">>
Hdr_Order_ID ==
    <<"O","r","d","e","r","_","I","D">>
Hdr_order_date ==
    <<"o","r","d","e","r","_","d","a","t","e">>
Hdr_Sku ==
    <<"S","k","u">>
Hdr_order_lines_product_reference ==
    <<"o","r","d","e","r","_","l","i","n","e","s","/","p","r","o","d","u","c","t","/",
      "r","e","f","e","r","e","n","c","e">>

SalesHeaderPool ==
    {Hdr_Total_Values,
     Hdr_total_values_padded,
     Hdr_Total_Values_hyphen,
     Hdr_Order_Date,
     Hdr_Date,
     Hdr_creation_date,
     Hdr_Total_Item,
     Hdr_total_commission,
     Hdr_Customer_ID}

SkuHeaderPool ==
    {Hdr_Quantity,
     Hdr_Unit_Price,
     Hdr_unit_price,
     Hdr_order_lines_quantity,
     Hdr_order_lines_unit_price,
     Hdr_order_lines_total,
     Hdr_line_total,
     Hdr_Line_Total_hyphen,
     Hdr_matrix_order_id,
     Hdr_Order_ID,
     Hdr_order_date,
     Hdr_Sku,
     Hdr_order_lines_product_reference,
     Hdr_creation_date}

MaxCols == 2

MaxRows == 2

\* sequences of at most MaxCols distinct headers of a pool
HeaderSeqs(pool) ==
    {h \in UNION {[1..n -> pool] : n \in 1..MaxCols} :
        \A i, j \in 1..Len(h) : i # j => h[i] # h[j]}

\* sequences of at most MaxRows rows of a pool
RowSeqs(pool) ==
    UNION {[1..n -> pool] : n \in 0..MaxRows}

\* the file without the columns at the positions in `drop`
RECURSIVE DropAt(_, _, _)
DropAt(s, drop, i) ==
    IF s = <<>> THEN <<>>
    ELSE IF i \in drop THEN DropAt(Tail(s), drop, i + 1)
    ELSE <<Head(s)>> \o DropAt(Tail(s), drop, i + 1)

DropCols(file, drop) ==
    [columns |-> DropAt(file.columns, drop, 1),
     rows |-> [r \in 1..Len(file.rows) |-> DropAt(file.rows[r], drop, 1)]]

\* files that vary the headers: one row of plain numbers
HeaderFiles(pool) ==
    {[columns |-> h, rows |-> << [i \in 1..Len(h) |-> Num(1)] >>] :
        h \in HeaderSeqs(pool)}

\* rows <<Total Item, Total Values, Total Commission>>: plain numbers, text
\* that is no number, empty cells, and the text 'inf'
SalesRowPool ==
    {<<Num(1), Num(2), Num(1)>>,
     <<Str, Num(0), NaN>>,
     <<Num(1), Str, Num(1)>>,
     <<Num(1), NaN, Num(1)>>,
     <<Num(1), Inf(1), Num(1)>>}

\* files that vary the cells of the order-level numeric columns
SalesValueFiles ==
    {DropCols([columns |-> <<Hdr_Total_Item, Hdr_Total_Values, Hdr_total_commission>>,
               rows |-> rows], drop) :
        rows \in RowSeqs(SalesRowPool), drop \in {{}, {1}, {3}}}

SalesFiles ==
    HeaderFiles(SalesHeaderPool) \cup SalesValueFiles

\* rows <<quantity, unit price, line total>>: 2 x 3 with a total that is
\* zero, positive, negative or no number; an infinite and an empty quantity
SkuRowPool ==
    {<<Num(2), Num(3), t>> : t \in {Num(0), Num(1), Num(-1), Str}}
    \cup {<<Inf(1), Num(0), Num(0)>>, <<NaN, Num(3), Num(1)>>}

\* files that vary the cells of the line-item numeric columns
SkuValueFiles ==
    {DropCols([columns |-> <<Hdr_Quantity, Hdr_unit_price, Hdr_line_total>>,
               rows |-> rows], drop) :
        rows \in RowSeqs(SkuRowPool), drop \in {{}, {1}, {2}, {3}}}
    \cup
    {[columns |-> <<Hdr_order_lines_quantity, Hdr_order_lines_unit_price,
                    Hdr_order_lines_total>>,
      rows |-> rows] : rows \in RowSeqs(SkuRowPool)}

SkuFiles ==
    HeaderFiles(SkuHeaderPool) \cup SkuValueFiles

----------------------------------------------------------------------------
(* SpecLoad: one call of a loader on an uploaded file.                     *)

\* no section has computed anything yet
NothingComputed ==
    /\ metrics = <<>>
    /\ rep_perf = <<>>
    /\ customer_last = <<>>
    /\ cust_perf = <<>>
    /\ sku_perf = <<>>
    /\ monthly = <<>>
    /\ avg_growth = <<>>

InitLoad ==
    /\ \/ sales_file \in {<<f>> : f \in SalesFiles} /\ sku_file = <<>>
       \/ sales_file = <<>> /\ sku_file \in {<<f>> : f \in SkuFiles}
    /\ top_n = 10 /\ top_n_cust = 10 /\ top_n_sku = 15
    /\ df_sales = <<>>
    /\ df_sku = <<>>
    /\ NothingComputed
    /\ page = <<>>
    /\ exc = "none"
    /\ pc = "call"

\* df_sales = load_sales_data(sales_file)
LoadSales ==
    /\ pc = "call"
    /\ sales_file # <<>>
    /\ LET r == load_sales_data(sales_file[1])
       IN  /\ df_sales' = IF r.exc = "none" THEN <<r.df>> ELSE <<>>
           /\ exc' = r.exc
    /\ pc' = "loaded"
    /\ UNCHANGED <<inputs, df_sku, tables, page>>

\* df_sku = load_sku_data(sku_file)
LoadSku ==
    /\ pc = "call"
    /\ sku_file # <<>>
    /\ LET r == load_sku_data(sku_file[1])
       IN  /\ df_sku' = IF r.exc = "none" THEN <<r.df>> ELSE <<>>
           /\ exc' = r.exc
    /\ pc' = "loaded"
    /\ UNCHANGED <<inputs, df_sales, tables, page>>

NextLoad ==
    \/ LoadSales
    \/ LoadSku

SpecLoad ==
    InitLoad /\ [][NextLoad]_vars

----------------------------------------------------------------------------
(* Claims about the loaders (SpecLoad).                                    *)

\* the frames a loader has returned
Loaded ==
    {df_sales[i] : i \in 1..Len(df_sales)} \cup {df_sku[i] : i \in 1..Len(df_sku)}

\* the uploaded file the loader was called on
Uploaded ==
    {sales_file[i] : i \in 1..Len(sales_file)} \cup {sku_file[i] : i \in 1..Len(sku_file)}

IsCanonicalName(s) ==
    /\ \A i \in 1..Len(s) : s[i] # " " /\ s[i] # "-"
    /\ \A i \in 1..Len(s) : \A j \in 1..26 : s[i] # LowerCase[j]

\* C1: the column names both loaders produce are trimmed, uppercase and hold
\* no space and no hyphen, and both loaders canonicalize a header identically.
C1_ColumnNamesCanonical ==
    pc = "loaded" =>
        /\ \A df \in Loaded : \A i \in 1..Len(df.columns) :
                IsCanonicalName(df.columns[i])
        /\ \A f \in Uploaded : \A i \in 1..Len(f.columns) :
                SalesColumnName(f.columns[i]) = SkuColumnName(f.columns[i])

DeclaredNumeric ==
    IF df_sales # <<>> THEN sales_numeric_cols ELSE sku_numeric_cols

\* C2: after normalization every declared numeric column holds, in every
\* row, a finite non-null number.
C2_NumericColumnsFinite ==
    pc = "loaded" =>
        \A df \in Loaded : \A c \in 1..Len(DeclaredNumeric) :
            HasCol(df, DeclaredNumeric[c]) =>
                \A r \in 1..Len(df.rows) :
                    Col(df, DeclaredNumeric[c])[r].k = "num"

\* the line-item frame as it stands before numeric coercion (names settled)
SkuNamed ==
    Then(SkuStandardize(sku_file[1]), SkuRename).df

\* the line totals of the file once coerced to numbers
SkuOriginalTotals ==
    ToNumericFillna(Col(SkuNamed, LINE_TOTAL))

\* C3: when the coerced line totals of the whole table sum to exactly zero
\* and quantity and unit price are present, every row's LINE_TOTAL is
\* QUANTITY x UNIT_PRICE; in every other case every row keeps its own
\* (coerced) line total, whatever the value of that one row.
C3_LineTotalRule ==
    (pc = "loaded" /\ df_sku # <<>> /\ HasCol(df_sku[1], LINE_TOTAL)) =>
        LET out == df_sku[1]
        IN  IF /\ SeriesSum(SkuOriginalTotals) = Num(0)
               /\ HasCol(out, QUANTITY)
               /\ HasCol(out, UNIT_PRICE)
            THEN \A r \in 1..Len(out.rows) :
                    Col(out, LINE_TOTAL)[r] =
                        Mul(Col(out, QUANTITY)[r], Col(out, UNIT_PRICE)[r])
            ELSE Col(out, LINE_TOTAL) = SkuOriginalTotals

\* C3 witness: two rows whose non-zero totals cancel were both recomputed
C3_Witness ==
    /\ pc = "loaded"
    /\ df_sku # <<>>
    /\ HasCol(df_sku[1], LINE_TOTAL)
    /\ Len(df_sku[1].rows) = 2
    /\ SkuOriginalTotals = <<Num(1), Num(-1)>>
    /\ Col(df_sku[1], LINE_TOTAL) = <<Num(6), Num(6)>>

\* C10: the frame load_sku_data returns never holds two columns of the same
\* name: an alias is not renamed onto a canonical column already present.
C10_NoDuplicateCanonical ==
    (pc = "loaded" /\ df_sku # <<>>) =>
        \A i, j \in 1..Len(df_sku[1].columns) :
            i # j => df_sku[1].columns[i] # df_sku[1].columns[j]

\* the uploaded file with its column names settled (standardized, and for
\* the line-item loader renamed), before any conversion
Named ==
    IF df_sales # <<>> THEN SalesStandardize(sales_file[1]).df ELSE SkuNamed

\* the derived date fields
DerivedDateFields ==
    {YEAR_MONTH, YEAR, MONTH, QUARTER}

\* C11: of ORDER_DATE, DATE, CREATION_DATE only the first name present is
\* used: its cells become dates or NaT and are copied into ORDER_DATE, the
\* candidates of lower priority keep their cells, and the period key, year,
\* month and quarter exist exactly when ORDER_DATE exists after detection.
C11_DateDetection ==
    pc = "loaded" =>
        \A df \in Loaded :
            LET present == {i \in 1..Len(date_cols) : HasCol(Named, date_cols[i])}
            IN  /\ present = {} => ~HasCol(df, ORDER_DATE)
                /\ present # {} =>
                      LET first == CHOOSE i \in present : \A j \in present : i <= j
                          col == date_cols[first]
                      IN  /\ IsSeries(df, ORDER_DATE)
                          /\ \A r \in 1..Len(df.rows) :
                                /\ Col(df, ORDER_DATE)[r].k \in {"date", "nat"}
                                /\ Col(Named, col)[r].k = "date" =>
                                      Col(df, ORDER_DATE)[r] = Col(Named, col)[r]
                                /\ Col(Named, col)[r].k \in {"str", "nan"} =>
                                      Col(df, ORDER_DATE)[r] = NaT
                          /\ Col(df, col) = Col(df, ORDER_DATE)
                          /\ \A j \in present \ {first} :
                                date_cols[j] # ORDER_DATE =>
                                    Col(df, date_cols[j]) = Col(Named, date_cols[j])
                /\ \A c \in DerivedDateFields :
                      HasCol(df, c) <=> HasCol(df, ORDER_DATE)

----------------------------------------------------------------------------
(* calculate_metrics and the Overview section.                             *)

\* a variant of calculate_metrics: the average guarded by the commission column
calculate_metrics_guard_slip(df) ==
    [total_revenue |->
        IF HasCol(df, TOTAL_VALUES) THEN SeriesSum(Col(df, TOTAL_VALUES)) ELSE Num(0),
     total_orders |-> Num(Len(df.rows)),
     total_commission |->
        IF HasCol(df, TOTAL_COMMISSION) THEN SeriesSum(Col(df, TOTAL_COMMISSION))
        ELSE Num(0),
     unique_customers |->
        IF HasCol(df, CUSTOMER_ID) THEN Num(SeriesNUnique(Col(df, CUSTOMER_ID)))
        ELSE Num(0),
     avg_order_value |->
        IF HasCol(df, TOTAL_VALUES) /\ HasCol(df, TOTAL_COMMISSION)
        THEN SeriesMean(Col(df, TOTAL_VALUES)) ELSE Num(0),
     unique_reps |->
        IF HasCol(df, SALE_REPRESENTATIVE)
        THEN Num(SeriesNUnique(Col(df, SALE_REPRESENTATIVE))) ELSE Num(0)]

\* app.py:114-124
calculate_metrics(df) ==
    [total_revenue |->
        IF HasCol(df, TOTAL_VALUES) THEN SeriesSum(Col(df, TOTAL_VALUES)) ELSE Num(0),
     total_orders |-> Num(Len(df.rows)),
     total_commission |->
        IF HasCol(df, TOTAL_COMMISSION) THEN SeriesSum(Col(df, TOTAL_COMMISSION))
        ELSE Num(0),
     unique_customers |->
        IF HasCol(df, CUSTOMER_ID) THEN Num(SeriesNUnique(Col(df, CUSTOMER_ID)))
        ELSE Num(0),
     avg_order_value |->
        IF HasCol(df, TOTAL_VALUES) THEN SeriesMean(Col(df, TOTAL_VALUES)) ELSE Num(0),
     unique_reps |->
        IF HasCol(df, SALE_REPRESENTATIVE)
        THEN Num(SeriesNUnique(Col(df, SALE_REPRESENTATIVE))) ELSE Num(0)]

\* the rows of df that satisfy Keep
FilterRows(df, Keep(_)) ==
    [df EXCEPT !.rows = SelectSeq(df.rows, Keep)]

\* the distinct non-null values of a column: the options of a multiselect
Options(df, c) ==
    IF HasCol(df, c)
    THEN {NotNull(Col(df, c))[i] : i \in 1..Len(NotNull(Col(df, c)))}
    ELSE {}

\* app.py:216-249  df[df[c].isin(selected)], or df itself when 'All' is selected
\* (selected = <<>>) or the column is absent
FilterIsin(df, c, selected) ==
    IF ~HasCol(df, c) \/ selected = <<>> THEN df
    ELSE LET i == CHOOSE j \in ColIdx(df, c) : TRUE
         IN  FilterRows(df, LAMBDA row : row[i] \in selected[1])

\* app.py:209-213  rows whose date lies in [lo, hi]; rows without a date drop out
FilterDates(df, range) ==
    IF ~HasCol(df, ORDER_DATE) \/ Len(range) # 2 THEN df
    ELSE LET i == CHOOSE j \in ColIdx(df, ORDER_DATE) : TRUE
         IN  FilterRows(df, LAMBDA row :
                /\ row[i].k = "date"
                /\ range[1] <= row[i].n
                /\ row[i].n <= range[2])

\* what the user may pick in a multiselect: 'All' among the picks (<<>>), or
\* some set of the other options, the empty set included
Selections(df, c) ==
    {<<>>} \cup {<<sel>> : sel \in SUBSET Options(df, c)}

\* what the user may pick in the date input: one day (the range is not
\* complete), or a range of two days between the first and the last order
DateRanges(df) ==
    LET ds == {c.n : c \in Options(df, ORDER_DATE)}
    IN  {<<lo>> : lo \in ds} \cup {r \in ds \X ds : r[1] <= r[2]}

\* app.py:194-249  the sidebar filters, applied in order: date, rep, status, city
Filters ==
    /\ pc = "filters"
    /\ \/ /\ HasCol(df_sales[1], ORDER_DATE)
          /\ Options(df_sales[1], ORDER_DATE) = {}
          \* min() and max() are NaT: st.date_input is given no day to show
          /\ exc' = "date_input"
          /\ pc' = "raised"
          /\ UNCHANGED df_sales
       \/ /\ ~(HasCol(df_sales[1], ORDER_DATE) /\ Options(df_sales[1], ORDER_DATE) = {})
          /\ \E range \in IF HasCol(df_sales[1], ORDER_DATE)
                          THEN DateRanges(df_sales[1]) ELSE {<<>>} :
                LET d1 == FilterDates(df_sales[1], range)
                IN  \E reps \in Selections(d1, SALE_REPRESENTATIVE) :
                      LET d2 == FilterIsin(d1, SALE_REPRESENTATIVE, reps)
                      IN  \E sts \in Selections(d2, STATUS) :
                            LET d3 == FilterIsin(d2, STATUS, sts)
                            IN  \E cities \in Selections(d3, CITY) :
                                  df_sales' = <<FilterIsin(d3, CITY, cities)>>
          /\ pc' = "tab1"
          /\ UNCHANGED exc
    /\ UNCHANGED <<inputs, df_sku, tables, page>>

\* app.py:263-307  the Overview section
Tab1 ==
    /\ pc = "tab1"
    /\ metrics' = <<calculate_metrics(df_sales[1])>>
    /\ page' = Append(page, "overview")
    /\ pc' = "tab2"
    /\ UNCHANGED <<inputs, frames, rep_perf, customer_last, cust_perf, sku_perf,
                   monthly, avg_growth, exc>>

----------------------------------------------------------------------------
(* SpecMetrics: a run from the point where the sales file is loaded,       *)
(* through the sidebar filters and the Overview section.                   *)

\* rows <<Total Values, Total Commission, Customer ID, Sale Representative>>
MetricRowPool ==
    {<<Num(2), Num(1), Text(1), Text(1)>>,
     <<Num(3), Num(1), Text(2), Text(2)>>,
     <<Num(3), Num(1), NaN, Text(1)>>,
     <<Num(2), Num(1), Text(1), Text(2)>>}

\* sales files that vary which of the four source columns exist
MetricFiles ==
    {DropCols([columns |-> <<Hdr_Total_Values, Hdr_total_commission,
                             Hdr_Customer_ID, Hdr_Sale_Representative>>,
               rows |-> rows], drop) :
        rows \in RowSeqs(MetricRowPool), drop \in SUBSET (1..4)}

\* the state of a run once `Load data` has returned for a sales file alone
Loaded1(file) ==
    /\ sales_file = <<file>>
    /\ sku_file = <<>>
    /\ top_n = 10 /\ top_n_cust = 10 /\ top_n_sku = 15
    /\ df_sales = <<load_sales_data(file).df>>
    /\ df_sku = <<>>
    /\ NothingComputed
    /\ page = <<"loaded_sales">>
    /\ exc = "none"

InitMetrics ==
    /\ \E file \in MetricFiles : Loaded1(file)
    /\ pc = "filters"

NextMetrics ==
    \/ Filters
    \/ Tab1

SpecMetrics ==
    InitMetrics /\ [][NextMetrics]_vars

MetricNames ==
    {"total_revenue", "total_orders", "total_commission", "unique_customers",
     "avg_order_value", "unique_reps"}

\* C4: on a table of zero rows calculate_metrics returns every one of the
\* six metrics as zero.
C4_EmptyAllZero ==
    (metrics # <<>> /\ df_sales[1].rows = <<>>) =>
        /\ DOMAIN metrics[1] = MetricNames
        /\ \A m \in MetricNames : metrics[1][m] = Num(0)

\* the column a metric is computed from (total_orders has none)
MetricSource(m) ==
    CASE m \in {"total_revenue", "avg_order_value"} -> TOTAL_VALUES
      [] m = "total_commission" -> TOTAL_COMMISSION
      [] m = "unique_customers" -> CUSTOMER_ID
      [] m = "unique_reps" -> SALE_REPRESENTATIVE

\* C5: whichever of the four source columns are absent, all six metrics are
\* returned, a metric whose source column is absent is zero, total_orders is
\* the row count, and taking further columns away changes no metric whose
\* own source column stays.
C5_MetricsDegradeIndependently ==
    metrics # <<>> =>
        LET df == df_sales[1]
        IN  /\ DOMAIN metrics[1] = MetricNames
            /\ metrics[1].total_orders = Num(Len(df.rows))
            /\ \A m \in MetricNames \ {"total_orders"} :
                    ~HasCol(df, MetricSource(m)) => metrics[1][m] = Num(0)
            /\ \A drop \in SUBSET (1..Len(df.columns)) :
                    LET less == DropCols(df, drop)
                        m2 == calculate_metrics(less)
                    IN  /\ m2.total_orders = metrics[1].total_orders
                        /\ \A m \in MetricNames \ {"total_orders"} :
                              IF HasCol(less, MetricSource(m))
                              THEN m2[m] = metrics[1][m]
                              ELSE m2[m] = Num(0)

\* C5 witness: revenue and its average are computed from two orders while
\* the customer and rep columns are absent
C5_Witness ==
    /\ metrics # <<>>
    /\ HasCol(df_sales[1], TOTAL_VALUES)
    /\ ~HasCol(df_sales[1], CUSTOMER_ID)
    /\ ~HasCol(df_sales[1], SALE_REPRESENTATIVE)
    /\ Len(df_sales[1].rows) = 2
    /\ metrics[1].total_revenue = Num(5)
    /\ metrics[1].avg_order_value = Frac(5, 2)
    /\ metrics[1].unique_customers = Num(0)

----------------------------------------------------------------------------
(* groupby / agg / sort_values / head.                                     *)

IsNull(c) ==
    c.k = "nan" \/ c.k = "nat"

\* order of two cells of one kind: numbers by value, texts and dates by n
CellLess(a, b) ==
    IF a.k = "num" /\ b.k = "num" THEN a.n * b.d < b.n * a.d ELSE a.n < b.n

\* lexicographic order of two key tuples of one length
RECURSIVE KeyLess(_, _)
KeyLess(k1, k2) ==
    /\ k1 # <<>>
    /\ \/ CellLess(Head(k1), Head(k2))
       \/ Head(k1) = Head(k2) /\ KeyLess(Tail(k1), Tail(k2))

\* the key of a row: its cells in the grouping columns
KeyOf(df, keycols, row) ==
    [j \in 1..Len(keycols) |-> row[CHOOSE i \in ColIdx(df, keycols[j]) : TRUE]]

\* groupby drops the rows whose key holds a missing value (dropna=True)
KeyedRows(df, keycols) ==
    SelectSeq(df.rows, LAMBDA row :
        \A j \in 1..Len(keycols) : ~IsNull(KeyOf(df, keycols, row)[j]))

RECURSIVE SortKeys(_)
SortKeys(S) ==
    IF S = {} THEN <<>>
    ELSE LET m == CHOOSE k \in S : \A o \in S : ~KeyLess(o, k)
         IN  <<m>> \o SortKeys(S \ {m})

\* the group keys in the order groupby yields them (sort=True): ascending
GroupKeys(df, keycols) ==
    SortKeys({KeyOf(df, keycols, KeyedRows(df, keycols)[r]) :
                r \in 1..Len(KeyedRows(df, keycols))})

\* the rows of one group, as a frame
Group(df, keycols, key) ==
    FilterRows(df, LAMBDA row : KeyOf(df, keycols, row) = key)

\* agg 'count': the cells that are not missing
SeriesCount(s) ==
    Len(NotNull(s))

\* agg 'first': the first cell that is not missing
SeriesFirst(s) ==
    IF NotNull(s) = <<>> THEN NaN ELSE NotNull(s)[1]

\* agg 'max' of a date column: the latest day, NaT when the group has none
SeriesMaxDate(s) ==
    IF NotNull(s) = <<>> THEN NaT
    ELSE CHOOSE c \in {NotNull(s)[i] : i \in 1..Len(NotNull(s))} :
            \A i \in 1..Len(NotNull(s)) : NotNull(s)[i].n <= c.n

\* a <= b for two finite numbers
NumLeq(a, b) ==
    a.n * b.d <= b.n * a.d

\* the orders in which the positions in I may come out of a descending sort
\* of vals: always a largest value next, any of the equal ones
RECURSIVE DescIndexOrders(_, _)
DescIndexOrders(vals, I) ==
    IF I = {} THEN {<<>>}
    ELSE UNION {{<<m>> \o rest : rest \in DescIndexOrders(vals, I \ {m})} :
                    m \in {i \in I : \A j \in I : NumLeq(vals[j], vals[i])}}

\* a variant of SortValuesDesc: ascending
SortValuesAsc(rows, vals) ==
    {[i \in 1..Len(rows) |-> rows[o[Len(rows) + 1 - i]]] :
        o \in DescIndexOrders(vals, 1..Len(rows))}

\* sort_values(by, ascending=False) with the default kind='quicksort', which
\* is not stable: every order that is descending in vals is a possible result
SortValuesDesc(rows, vals) ==
    {[i \in 1..Len(rows) |-> rows[o[i]]] :
        o \in DescIndexOrders(vals, 1..Len(rows))}

\* .head(n)
HeadN(rows, n) ==
    SubSeq(rows, 1, IF n < Len(rows) THEN n ELSE Len(rows))

AllPresent(df, cols) ==
    \A c \in cols : HasCol(df, c)

\* app.py:320-327 before the sort: one row per sales rep
RepGroups(df) ==
    LET keys == GroupKeys(df, <<SALE_REPRESENTATIVE>>)
    IN  [g \in 1..Len(keys) |->
            LET rows == Group(df, <<SALE_REPRESENTATIVE>>, keys[g])
            IN  [Sales_Rep |-> keys[g][1],
                 Revenue |-> SeriesSum(Col(rows, TOTAL_VALUES)),
                 Orders |-> SeriesCount(Col(rows, ORDER_NUMBER)),
                 Customers |-> SeriesNUnique(Col(rows, CUSTOMER_ID)),
                 Commission |-> SeriesSum(Col(rows, TOTAL_COMMISSION))]]

\* app.py:320-327  the possible values of rep_perf
RepPerf(df, n) ==
    LET groups == RepGroups(df)
    IN  {HeadN(sorted, n) :
            sorted \in SortValuesDesc(groups,
                                      [g \in 1..Len(groups) |-> groups[g].Revenue])}

\* app.py:406-412 before the sort: one row per (customer id, customer name)
CustGroups(df) ==
    LET keys == GroupKeys(df, <<CUSTOMER_ID, CUSTOMER_NAME>>)
    IN  [g \in 1..Len(keys) |->
            LET rows == Group(df, <<CUSTOMER_ID, CUSTOMER_NAME>>, keys[g])
            IN  [Customer_ID |-> keys[g][1],
                 Customer_Name |-> keys[g][2],
                 Revenue |-> SeriesSum(Col(rows, TOTAL_VALUES)),
                 Orders |-> SeriesCount(Col(rows, ORDER_NUMBER)),
                 City |-> SeriesFirst(Col(rows, CITY))]]

\* app.py:406-412  the possible values of cust_perf
CustPerf(df, n) ==
    LET groups == CustGroups(df)
    IN  {HeadN(sorted, n) :
            sorted \in SortValuesDesc(groups,
                                      [g \in 1..Len(groups) |-> groups[g].Revenue])}

\* app.py:468-470
sku_cols(df) ==
    IF HasCol(df, PRODUCT_NAME) THEN <<SKU, PRODUCT_NAME>> ELSE <<SKU>>

\* app.py:472-476 before the sort: one row per SKU (and product name)
SkuGroups(df) ==
    LET keys == GroupKeys(df, sku_cols(df))
    IN  [g \in 1..Len(keys) |->
            LET rows == Group(df, sku_cols(df), keys[g])
            IN  [SKU |-> keys[g],
                 QUANTITY |-> SeriesSum(Col(rows, QUANTITY)),
                 LINE_TOTAL |-> SeriesSum(Col(rows, LINE_TOTAL)),
                 UNIT_PRICE |-> SeriesMean(Col(rows, UNIT_PRICE))]]

\* app.py:472-476  the possible values of sku_perf
SkuPerf(df, n) ==
    LET groups == SkuGroups(df)
    IN  {HeadN(sorted, n) :
            sorted \in SortValuesDesc(groups,
                                      [g \in 1..Len(groups) |-> groups[g].LINE_TOTAL])}

----------------------------------------------------------------------------
(* Calendar days, the client-status table and the sections 2 to 4.         *)

\* the number of days from 1970-01-01 to the day yyyymmdd
DayNumber(yyyymmdd) ==
    LET y0 == yyyymmdd \div 10000
        m == (yyyymmdd \div 100) % 100
        dd == yyyymmdd % 100
        y == IF m <= 2 THEN y0 - 1 ELSE y0
        era == y \div 400
        yoe == y - era * 400
        doy == (153 * (IF m > 2 THEN m - 3 ELSE m + 9) + 2) \div 5 + dd - 1
        doe == yoe * 365 + yoe \div 4 - yoe \div 100 + doy
    IN  era * 146097 + doe - 719468

\* the day yyyymmdd that lies z days after 1970-01-01
CivilFromDays(z) ==
    LET zz == z + 719468
        era == zz \div 146097
        doe == zz - era * 146097
        yoe == (doe - doe \div 1460 + doe \div 36524 - doe \div 146096) \div 365
        doy == doe - (365 * yoe + yoe \div 4 - yoe \div 100)
        mp == (5 * doy + 2) \div 153
        dd == doy - (153 * mp + 2) \div 5 + 1
        m == IF mp < 10 THEN mp + 3 ELSE mp - 9
        y == yoe + era * 400 + (IF m <= 2 THEN 1 ELSE 0)
    IN  y * 10000 + m * 100 + dd

\* (max_date - date).days: NaN when either side is NaT
DaysBetween(max_date, date) ==
    IF max_date.k = "date" /\ date.k = "date"
    THEN Num(DayNumber(max_date.n) - DayNumber(date.n))
    ELSE NaN

\* days < n as Python evaluates it: False for NaN
DaysLt(days, n) ==
    days.k = "num" /\ days.n < n * days.d

\* a variant of assign_status: the bounds taken as inclusive upper bounds
assign_status_inclusive(days) ==
    IF DaysLt(days, 31) THEN "Recent"
    ELSE IF DaysLt(days, 91) THEN "Warm"
    ELSE IF DaysLt(days, 181) THEN "Cold"
    ELSE "Lost"

\* app.py:372-376
assign_status(days) ==
    IF DaysLt(days, 30) THEN "Recent"
    ELSE IF DaysLt(days, 90) THEN "Warm"
    ELSE IF DaysLt(days, 180) THEN "Cold"
    ELSE "Lost"

\* a variant of ClientStatus: the reference date taken from the grouped
\* table (the latest of the pairs' last orders) instead of the filtered table
ClientStatus_max_of_pairs(df) ==
    LET keys == GroupKeys(df, <<CUSTOMER_ID, SALE_REPRESENTATIVE>>)
        lasts == [g \in 1..Len(keys) |->
                    SeriesMaxDate(Col(Group(df, <<CUSTOMER_ID, SALE_REPRESENTATIVE>>,
                                            keys[g]), ORDER_DATE))]
        max_date == SeriesMaxDate(lasts)
    IN  [g \in 1..Len(keys) |->
            LET rows == Group(df, <<CUSTOMER_ID, SALE_REPRESENTATIVE>>, keys[g])
            IN  [CUSTOMER_ID |-> keys[g][1],
                 SALE_REPRESENTATIVE |-> keys[g][2],
                 ORDER_DATE |-> lasts[g],
                 CUSTOMER_NAME |-> SeriesFirst(Col(rows, CUSTOMER_NAME)),
                 Days_Since |-> DaysBetween(max_date, lasts[g]),
                 Status |-> assign_status(DaysBetween(max_date, lasts[g]))]]

\* app.py:363-378  the client-status table
ClientStatus(df) ==
    LET max_date == SeriesMaxDate(Col(df, ORDER_DATE))
        keys == GroupKeys(df, <<CUSTOMER_ID, SALE_REPRESENTATIVE>>)
    IN  [g \in 1..Len(keys) |->
            LET rows == Group(df, <<CUSTOMER_ID, SALE_REPRESENTATIVE>>, keys[g])
                last == SeriesMaxDate(Col(rows, ORDER_DATE))
            IN  [CUSTOMER_ID |-> keys[g][1],
                 SALE_REPRESENTATIVE |-> keys[g][2],
                 ORDER_DATE |-> last,
                 CUSTOMER_NAME |-> SeriesFirst(Col(rows, CUSTOMER_NAME)),
                 Days_Since |-> DaysBetween(max_date, last),
                 Status |-> assign_status(DaysBetween(max_date, last))]]

\* app.py:312-395  the Sales Reps section; a column named in an agg dict and
\* absent from the frame raises KeyError
Tab2 ==
    /\ pc = "tab2"
    /\ page' = Append(page, "sales_reps")
    /\ LET df == df_sales[1]
       IN  IF ~HasCol(df, SALE_REPRESENTATIVE)
           THEN /\ pc' = "tab3"
                /\ UNCHANGED <<rep_perf, customer_last, exc>>
           ELSE IF ~AllPresent(df, {TOTAL_VALUES, ORDER_NUMBER, CUSTOMER_ID,
                                    TOTAL_COMMISSION})
           THEN /\ exc' = "rep_perf"
                /\ pc' = "raised"
                /\ UNCHANGED <<rep_perf, customer_last>>
           ELSE /\ \E rp \in RepPerf(df, top_n) : rep_perf' = <<rp>>
                /\ IF ~HasCol(df, ORDER_DATE)
                   THEN /\ pc' = "tab3"
                        /\ UNCHANGED <<customer_last, exc>>
                   ELSE IF ~HasCol(df, CUSTOMER_NAME)
                   THEN /\ exc' = "customer_last"
                        /\ pc' = "raised"
                        /\ UNCHANGED customer_last
                   ELSE /\ customer_last' = <<ClientStatus(df)>>
                        /\ pc' = "tab3"
                        /\ UNCHANGED exc
    /\ UNCHANGED <<inputs, frames, metrics, cust_perf, sku_perf, monthly, avg_growth>>

\* app.py:400-440  the Customers section
Tab3 ==
    /\ pc = "tab3"
    /\ page' = Append(page, "customers")
    /\ LET df == df_sales[1]
       IN  IF ~HasCol(df, CUSTOMER_ID)
           THEN /\ pc' = "tab4"
                /\ UNCHANGED <<cust_perf, exc>>
           ELSE IF ~AllPresent(df, {CUSTOMER_NAME, TOTAL_VALUES, ORDER_NUMBER, CITY})
           THEN /\ exc' = "cust_perf"
                /\ pc' = "raised"
                /\ UNCHANGED cust_perf
           ELSE /\ \E cp \in CustPerf(df, top_n_cust) : cust_perf' = <<cp>>
                /\ pc' = "tab4"
                /\ UNCHANGED exc
    /\ UNCHANGED <<inputs, frames, metrics, rep_perf, customer_last, sku_perf,
                   monthly, avg_growth>>

\* a variant of Tab4 without the test `df_sku is not None`: the section reads
\* df_sku.columns of None
Tab4_without_none_test ==
    /\ pc = "tab4"
    /\ page' = Append(page, "products")
    /\ IF df_sku = <<>>
       THEN /\ exc' = "sku_perf"
            /\ pc' = "raised"
            /\ UNCHANGED sku_perf
       ELSE LET df == df_sku[1]
            IN  IF ~HasCol(df, SKU)
                THEN /\ pc' = "tab5"
                     /\ UNCHANGED <<sku_perf, exc>>
                ELSE IF ~IsSeries(df, SKU)
                THEN /\ exc' = "unique_skus"
                     /\ pc' = "raised"
                     /\ UNCHANGED sku_perf
                ELSE IF ~AllPresent(df, {QUANTITY, LINE_TOTAL, UNIT_PRICE})
                THEN /\ exc' = "sku_perf"
                     /\ pc' = "raised"
                     /\ UNCHANGED sku_perf
                ELSE /\ \E sp \in SkuPerf(df, top_n_sku) : sku_perf' = <<sp>>
                     /\ pc' = "tab5"
                     /\ UNCHANGED exc
    /\ UNCHANGED <<inputs, frames, metrics, rep_perf, customer_last, cust_perf,
                   monthly, avg_growth>>

\* app.py:445-527  the Products section
Tab4 ==
    /\ pc = "tab4"
    /\ IF df_sku = <<>>
       THEN /\ page' = Append(page, "products_upload_info")
            /\ pc' = "tab5"
            /\ UNCHANGED <<sku_perf, exc>>
       ELSE /\ page' = Append(page, "products")
            /\ LET df == df_sku[1]
               IN  IF ~HasCol(df, SKU)
                   THEN /\ pc' = "tab5"
                        /\ UNCHANGED <<sku_perf, exc>>
                   ELSE IF ~IsSeries(df, SKU)
                   \* app.py:452-460  nunique() of two SKU columns is no number
                   THEN /\ exc' = "unique_skus"
                        /\ pc' = "raised"
                        /\ UNCHANGED sku_perf
                   ELSE IF ~AllPresent(df, {QUANTITY, LINE_TOTAL, UNIT_PRICE})
                   THEN /\ exc' = "sku_perf"
                        /\ pc' = "raised"
                        /\ UNCHANGED sku_perf
                   ELSE /\ \E sp \in SkuPerf(df, top_n_sku) : sku_perf' = <<sp>>
                        /\ pc' = "tab5"
                        /\ UNCHANGED exc
    /\ UNCHANGED <<inputs, frames, metrics, rep_perf, customer_last, cust_perf,
                   monthly, avg_growth>>

----------------------------------------------------------------------------
(* SpecStatus: runs over sales files of two orders of two customers, the   *)
(* second order up to MaxDays days before the first, from the filters      *)
(* through the Sales Reps section.                                         *)

MaxDays == 200

LastOrder ==
    Date(20240131)

StatusFiles ==
    {[columns |-> <<Hdr_Sale_Representative, Hdr_Total_Values, Hdr_Order_Number,
                    Hdr_Customer_ID, Hdr_total_commission, Hdr_Customer_Name,
                    Hdr_Order_Date>>,
      rows |-> << <<Text(1), Num(100), Text(301), Text(101), Num(1), Text(201),
                    LastOrder>>,
                  <<Text(1), Num(50), Text(302), Text(102), Num(1), Text(202),
                    Date(CivilFromDays(DayNumber(LastOrder.n) - k))>> >>] :
        k \in 0..MaxDays}

InitStatus ==
    /\ \E file \in StatusFiles : Loaded1(file)
    /\ pc = "filters"

NextStatus ==
    \/ Filters
    \/ Tab1
    \/ Tab2

SpecStatus ==
    InitStatus /\ [][NextStatus]_vars

\* C6: every non-negative day count is given exactly one status, by inclusive
\* lower bounds: below 30 Recent, 30..89 Warm, 90..179 Cold, 180 and more Lost.
C6_StatusBuckets ==
    customer_last # <<>> =>
        \A i \in 1..Len(customer_last[1]) :
            LET row == customer_last[1][i]
                days == row.Days_Since.n
            IN  (row.Days_Since.k = "num" /\ days >= 0) =>
                    /\ row.Status \in {"Recent", "Warm", "Cold", "Lost"}
                    /\ row.Status = "Recent" <=> days < 30
                    /\ row.Status = "Warm" <=> (30 <= days /\ days <= 89)
                    /\ row.Status = "Cold" <=> (90 <= days /\ days <= 179)
                    /\ row.Status = "Lost" <=> days >= 180

\* C6 witness: one table holds a customer at 0 days (Recent) and one at the
\* boundary of 180 days (Lost)
C6_Witness ==
    /\ customer_last # <<>>
    /\ \E i, j \in 1..Len(customer_last[1]) :
          /\ customer_last[1][i].Days_Since = Num(0)
          /\ customer_last[1][i].Status = "Recent"
          /\ customer_last[1][j].Days_Since = Num(180)
          /\ customer_last[1][j].Status = "Lost"

----------------------------------------------------------------------------
(* SpecAgg: runs from the end of the Overview section through the Sales    *)
(* Reps, Customers and Products sections, over files of up to MaxAggRows   *)
(* rows: enough groups for a slider at 5 to cut the table.                 *)

MaxAggRows == 7

\* stops of the three "Show Top N" sliders (app.py:317, 404, 465)
SliderStops ==
    {5, 10}

\* the shapes of a file of n rows: which row (0: none) belongs to the group
\* of the first row, and which rows (two at most) have their amount lowered
\* to that of the row before
AggShape(n) ==
    {[shared |-> sh, low |-> low] :
        sh \in 0..n,
        low \in {l \in SUBSET (1..n) : Cardinality(l) <= 2}}

\* the i-th order of a sales file; later rows hold smaller rep names, so the
\* order of the rows is not the order of the rep keys (it is that of the
\* customer keys)
AggSalesRow(i, shape) ==
    <<IF i = shape.shared THEN Text(9) ELSE Text(10 - i),
      IF i \in shape.low THEN Num(i - 1) ELSE Num(i),
      Text(300 + i),
      IF i = shape.shared THEN Text(101) ELSE Text(100 + i),
      Num(1),
      IF i = shape.shared THEN Text(201) ELSE Text(200 + i),
      Text(400)>>

AggSalesFiles ==
    UNION {{[columns |-> <<Hdr_Sale_Representative, Hdr_Total_Values,
                           Hdr_Order_Number, Hdr_Customer_ID, Hdr_total_commission,
                           Hdr_Customer_Name, Hdr_City>>,
             rows |-> [i \in 1..n |-> AggSalesRow(i, shape)]] :
                shape \in AggShape(n)} : n \in 0..MaxAggRows}

\* the i-th line of a SKU file
AggSkuRow(i, shape) ==
    <<IF i = shape.shared THEN Text(9) ELSE Text(10 - i),
      Num(1),
      Num(2),
      IF i \in shape.low THEN Num(i - 1) ELSE Num(i)>>

AggSkuFiles ==
    UNION {{[columns |-> <<Hdr_Sku, Hdr_Quantity, Hdr_unit_price, Hdr_line_total>>,
             rows |-> [i \in 1..n |-> AggSkuRow(i, shape)]] :
                shape \in AggShape(n)} : n \in 0..MaxAggRows}

\* a sales file of one order with a revenue and nothing else
PlainSalesFile ==
    [columns |-> <<Hdr_Total_Values>>, rows |-> << <<Num(100)>> >>]

\* the state of a run at the end of the Overview section, the filters left
\* at 'All'
AfterOverview(file, skufile, n) ==
    /\ sales_file = <<file>>
    /\ sku_file = skufile
    /\ top_n = n /\ top_n_cust = n /\ top_n_sku = n
    /\ df_sales = <<load_sales_data(file).df>>
    /\ df_sku = IF skufile = <<>> THEN <<>> ELSE <<load_sku_data(skufile[1]).df>>
    /\ metrics = <<calculate_metrics(df_sales[1])>>
    /\ rep_perf = <<>>
    /\ customer_last = <<>>
    /\ cust_perf = <<>>
    /\ sku_perf = <<>>
    /\ monthly = <<>>
    /\ avg_growth = <<>>
    /\ page = IF skufile = <<>> THEN <<"loaded_sales", "overview">>
              ELSE <<"loaded_sales", "loaded_sku", "overview">>
    /\ exc = "none"
    /\ pc = "tab2"

InitAgg ==
    \E n \in SliderStops :
        \/ \E file \in AggSalesFiles : AfterOverview(file, <<>>, n)
        \/ \E skufile \in AggSkuFiles : AfterOverview(PlainSalesFile, <<skufile>>, n)

NextAgg ==
    \/ Tab2
    \/ Tab3
    \/ Tab4

SpecAgg ==
    InitAgg /\ [][NextAgg]_vars


\* the sum of column valcol over the rows of df whose key is `key`
RECURSIVE SumRows(_, _, _, _, _)
SumRows(df, rows, keycols, key, valcol) ==
    IF rows = <<>> THEN 0
    ELSE (IF KeyOf(df, keycols, Head(rows)) = key
          THEN Head(rows)[CHOOSE i \in ColIdx(df, valcol) : TRUE].n ELSE 0)
         + SumRows(df, Tail(rows), keycols, key, valcol)

\* the keys that occur in df
KeysIn(df, keycols) ==
    {KeyOf(df, keycols, df.rows[r]) : r \in 1..Len(df.rows)}

\* the first row of df that holds `key`
FirstRowOf(df, keycols, key) ==
    CHOOSE r \in 1..Len(df.rows) :
        /\ KeyOf(df, keycols, df.rows[r]) = key
        /\ \A q \in 1..(r - 1) : KeyOf(df, keycols, df.rows[q]) # key

\* the three aggregations as [key, val] rows with what they were computed from
AggViews ==
    (IF rep_perf = <<>> THEN {} ELSE
        {[rows |-> [i \in 1..Len(rep_perf[1]) |->
                        [key |-> <<rep_perf[1][i].Sales_Rep>>,
                         val |-> rep_perf[1][i].Revenue]],
          df |-> df_sales[1], keycols |-> <<SALE_REPRESENTATIVE>>,
          valcol |-> TOTAL_VALUES, n |-> top_n]})
    \cup
    (IF cust_perf = <<>> THEN {} ELSE
        {[rows |-> [i \in 1..Len(cust_perf[1]) |->
                        [key |-> <<cust_perf[1][i].Customer_ID,
                                   cust_perf[1][i].Customer_Name>>,
                         val |-> cust_perf[1][i].Revenue]],
          df |-> df_sales[1], keycols |-> <<CUSTOMER_ID, CUSTOMER_NAME>>,
          valcol |-> TOTAL_VALUES, n |-> top_n_cust]})
    \cup
    (IF sku_perf = <<>> THEN {} ELSE
        {[rows |-> [i \in 1..Len(sku_perf[1]) |->
                        [key |-> sku_perf[1][i].SKU,
                         val |-> sku_perf[1][i].LINE_TOTAL]],
          df |-> df_sku[1], keycols |-> <<SKU>>,
          valcol |-> LINE_TOTAL, n |-> top_n_sku]})

\* at most n rows, one per key, each the sum of its group, in descending
\* order, and no group left out that beats a group kept
TopNDescending(v) ==
    LET keys == KeysIn(v.df, v.keycols)
        total(key) == SumRows(v.df, v.df.rows, v.keycols, key, v.valcol)
        len == Len(v.rows)
    IN  /\ len <= v.n
        /\ len = (IF Cardinality(keys) < v.n THEN Cardinality(keys) ELSE v.n)
        /\ \A i \in 1..len :
              /\ v.rows[i].key \in keys
              /\ v.rows[i].val = Num(total(v.rows[i].key))
        /\ \A i, j \in 1..len : i < j =>
              /\ v.rows[i].key # v.rows[j].key
              /\ NumLeq(v.rows[j].val, v.rows[i].val)
        /\ \A key \in keys :
              (\A i \in 1..len : v.rows[i].key # key) =>
                  total(key) <= v.rows[len].val.n

\* groups of equal value stand in the order of their first rows in the input
TiesInInputOrder(v) ==
    \A i, j \in 1..Len(v.rows) :
        (i < j /\ v.rows[i].val = v.rows[j].val) =>
            FirstRowOf(v.df, v.keycols, v.rows[i].key)
                < FirstRowOf(v.df, v.keycols, v.rows[j].key)

\* the rows (A,100), (B,300), (A,50) of the example, as a sales frame
ExampleFrame ==
    [columns |-> <<SALE_REPRESENTATIVE, TOTAL_VALUES, ORDER_NUMBER, CUSTOMER_ID,
                   TOTAL_COMMISSION>>,
     rows |-> << <<Text(1), Num(100), Text(301), Text(101), Num(1)>>,
                 <<Text(2), Num(300), Text(302), Text(102), Num(1)>>,
                 <<Text(1), Num(50), Text(303), Text(101), Num(1)>> >>]

ExampleTop1 ==
    \A t \in RepPerf(ExampleFrame, 1) :
        Len(t) = 1 /\ t[1].Sales_Rep = Text(2) /\ t[1].Revenue = Num(300)

\* C7 as claimed: every top-N aggregation holds at most N rows, one per key
\* with the group's sum, descending, groups of equal value in stable input
\* order.
C7_TopNStableTies ==
    \A v \in AggViews : TopNDescending(v) /\ TiesInInputOrder(v)

\* C7 amended: every top-N aggregation holds at most N rows (all groups when
\* there are fewer), one per key with the group's sum, in descending order of
\* the sum, and leaves out no group that beats a group it keeps; the example
\* rows give (B,300) for top-1.  Nothing is said of groups of equal value.
C7_TopNDescending ==
    /\ \A v \in AggViews : TopNDescending(v)
    /\ ExampleTop1

\* C7 witness: six reps, one of them with two orders, cut to the top five
C7_Witness ==
    /\ rep_perf # <<>>
    /\ top_n = 5
    /\ Len(df_sales[1].rows) = 7
    /\ Cardinality(KeysIn(df_sales[1], <<SALE_REPRESENTATIVE>>)) = 6
    /\ Len(rep_perf[1]) = 5
    /\ \E i \in 1..5 : rep_perf[1][i].Orders = 2

----------------------------------------------------------------------------
(* The Trends section, the start and the end of main.                      *)

\* a variant of PctChange: the first period given a growth of zero
PctChangeFirstZero(s) ==
    [i \in 1..Len(s) |->
        IF i = 1 THEN Num(0) ELSE Add(Div(s[i], s[i - 1]), Num(-1))]

\* Series.pct_change(): s[i] / s[i-1] - 1, the first period has no predecessor
PctChange(s) ==
    [i \in 1..Len(s) |->
        IF i = 1 THEN NaN ELSE Add(Div(s[i], s[i - 1]), Num(-1))]

\* app.py:535-541  one row per YEAR_MONTH, in ascending order of the key
Monthly(df) ==
    LET keys == GroupKeys(df, <<YEAR_MONTH>>)
    IN  [g \in 1..Len(keys) |->
            LET rows == Group(df, <<YEAR_MONTH>>, keys[g])
            IN  [Month |-> keys[g][1],
                 Revenue |-> SeriesSum(Col(rows, TOTAL_VALUES)),
                 Orders |-> SeriesCount(Col(rows, ORDER_NUMBER))]]

\* app.py:578  monthly['Revenue_Growth'] = monthly['Revenue'].pct_change() * 100
WithGrowth(m) ==
    LET growth == PctChange([i \in 1..Len(m) |-> m[i].Revenue])
    IN  [i \in 1..Len(m) |->
            [Month |-> m[i].Month,
             Revenue |-> m[i].Revenue,
             Orders |-> m[i].Orders,
             Revenue_Growth |-> Mul(growth[i], Num(100))]]

\* app.py:532-589  the Trends section
Tab5 ==
    /\ pc = "tab5"
    /\ page' = Append(page, "trends")
    /\ LET df == df_sales[1]
       IN  IF ~HasCol(df, YEAR_MONTH)
           THEN /\ pc' = "footer"
                /\ UNCHANGED <<monthly, avg_growth, exc>>
           ELSE IF ~AllPresent(df, {TOTAL_VALUES, ORDER_NUMBER})
           THEN /\ exc' = "monthly"
                /\ pc' = "raised"
                /\ UNCHANGED <<monthly, avg_growth>>
           ELSE /\ IF Len(Monthly(df)) > 1
                   THEN /\ monthly' = <<WithGrowth(Monthly(df))>>
                        /\ avg_growth' =
                              <<SeriesMean([i \in 1..Len(Monthly(df)) |->
                                    WithGrowth(Monthly(df))[i].Revenue_Growth])>>
                   ELSE /\ monthly' = <<Monthly(df)>>
                        /\ UNCHANGED avg_growth
                /\ pc' = "footer"
                /\ UNCHANGED exc
    /\ UNCHANGED <<inputs, frames, metrics, rep_perf, customer_last, cust_perf,
                   sku_perf>>

\* app.py:163-183  without a sales file main shows the upload note and returns
Start ==
    /\ pc = "start"
    /\ IF sales_file = <<>>
       THEN /\ page' = Append(page, "upload_info")
            /\ pc' = "returned"
       ELSE /\ pc' = "load"
            /\ UNCHANGED page
    /\ UNCHANGED <<inputs, frames, tables, exc>>

\* app.py:186-192  load_sales_data, then load_sku_data if a SKU file is there
Load ==
    /\ pc = "load"
    /\ LET r1 == load_sales_data(sales_file[1])
       IN  IF r1.exc # "none"
           THEN /\ exc' = "load_sales_data"
                /\ pc' = "raised"
                /\ UNCHANGED <<frames, page>>
           ELSE IF sku_file = <<>>
           THEN /\ df_sales' = <<r1.df>>
                /\ df_sku' = <<>>
                /\ page' = Append(page, "loaded_sales")
                /\ pc' = "filters"
                /\ UNCHANGED exc
           ELSE LET r2 == load_sku_data(sku_file[1])
                IN  IF r2.exc # "none"
                    THEN /\ df_sales' = <<r1.df>>
                         /\ exc' = "load_sku_data"
                         /\ pc' = "raised"
                         /\ UNCHANGED <<df_sku, page>>
                    ELSE /\ df_sales' = <<r1.df>>
                         /\ df_sku' = <<r2.df>>
                         /\ page' = page \o <<"loaded_sales", "loaded_sku">>
                         /\ pc' = "filters"
                         /\ UNCHANGED exc
    /\ UNCHANGED <<inputs, tables>>

\* app.py:594-597  the sidebar footer
Footer ==
    /\ pc = "footer"
    /\ page' = Append(page, "footer")
    /\ pc' = "done"
    /\ UNCHANGED <<inputs, frames, tables, exc>>

\* one run of main (app.py:143-597)
Next ==
    \/ Start
    \/ Load
    \/ Filters
    \/ Tab1
    \/ Tab2
    \/ Tab3
    \/ Tab4
    \/ Tab5
    \/ Footer

\* the state in which main is entered
Entered ==
    /\ df_sales = <<>>
    /\ df_sku = <<>>
    /\ NothingComputed
    /\ page = <<>>
    /\ exc = "none"
    /\ pc = "start"

----------------------------------------------------------------------------
(* SpecTrends: runs of main over sales files of up to MaxTrendRows orders  *)
(* spread over as many months, without a SKU file.                         *)

MaxTrendRows == 3

\* the 15th of the i-th month of 2024
MidMonth(i) ==
    Date(20240015 + 100 * i)

\* the i-th order: in month i or in the first month (the first order may
\* hold a date that does not parse), with a revenue of 0, 100 or 200
TrendRowPool(i) ==
    {<<dt, tv, Text(300 + i), Text(400)>> :
        dt \in {MidMonth(i), IF i = 1 THEN Str ELSE MidMonth(1)},
        tv \in {Num(0), Num(100), Num(200)}}

RECURSIVE TrendRows(_)
TrendRows(n) ==
    IF n = 0 THEN {<<>>}
    ELSE {Append(rows, row) : rows \in TrendRows(n - 1), row \in TrendRowPool(n)}

TrendFiles ==
    {[columns |-> <<Hdr_Order_Date, Hdr_Total_Values, Hdr_Order_Number, Hdr_City>>,
      rows |-> rows] : rows \in UNION {TrendRows(n) : n \in 0..MaxTrendRows}}

InitTrends ==
    /\ sales_file \in {<<f>> : f \in TrendFiles}
    /\ sku_file = <<>>
    /\ top_n = 10 /\ top_n_cust = 10 /\ top_n_sku = 15
    /\ Entered

SpecTrends ==
    InitTrends /\ [][Next]_vars

\* the growth in percent from revenue prev to revenue cur, both finite and
\* prev not zero
GrowthPercent(prev, cur) ==
    Frac((cur.n * prev.d - prev.n * cur.d) * 100, prev.n * cur.d)

\* C8: the first period of the monthly table has no growth value and is left
\* out of the average growth (it is not counted as zero growth); a monthly
\* table of a single period (or none) has no growth value at all.
C8_FirstPeriodOmitted ==
    monthly # <<>> =>
        LET m == monthly[1]
            n == Len(m)
        IN  /\ n <= 1 =>
                /\ avg_growth = <<>>
                /\ \A i \in 1..n : "Revenue_Growth" \notin DOMAIN m[i]
            /\ n > 1 =>
                /\ m[1].Revenue_Growth = NaN
                /\ \A i \in 2..n :
                      (m[i - 1].Revenue.k = "num" /\ m[i - 1].Revenue.n # 0
                          /\ m[i].Revenue.k = "num") =>
                        m[i].Revenue_Growth = GrowthPercent(m[i - 1].Revenue,
                                                            m[i].Revenue)
                /\ avg_growth # <<>>
                /\ avg_growth[1] = SeriesMean([i \in 1..(n - 1) |->
                                                  m[i + 1].Revenue_Growth])
                /\ (n = 2 /\ m[2].Revenue_Growth.k = "num") =>
                        avg_growth[1] = m[2].Revenue_Growth

\* C8 witness: revenue doubles from the first month to the second; the
\* average growth is the 100 percent of the second month, not 50
C8_Witness ==
    /\ monthly # <<>>
    /\ Len(monthly[1]) = 2
    /\ monthly[1][1].Revenue = Num(100)
    /\ monthly[1][2].Revenue = Num(200)
    /\ monthly[1][1].Revenue_Growth = NaN
    /\ monthly[1][2].Revenue_Growth = Num(100)
    /\ avg_growth = <<Num(100)>>

----------------------------------------------------------------------------
(* Spec: runs of main with and without each of the two uploads.            *)

\* a sales file with every column the sections use
FullSalesFile ==
    [columns |-> <<Hdr_Sale_Representative, Hdr_Total_Values, Hdr_Order_Number,
                   Hdr_Customer_ID, Hdr_total_commission, Hdr_Customer_Name,
                   Hdr_Order_Date, Hdr_City>>,
     rows |-> << <<Text(1), Num(100), Text(301), Text(101), Num(1), Text(201),
                   MidMonth(1), Text(400)>>,
                 <<Text(2), Num(200), Text(302), Text(102), Num(2), Text(202),
                   MidMonth(2), Text(400)>> >>]

MainSalesFiles ==
    {FullSalesFile,
     PlainSalesFile,
     \* two months of revenue and nothing else
     [columns |-> <<Hdr_Order_Date, Hdr_Total_Values, Hdr_Order_Number>>,
      rows |-> << <<MidMonth(1), Num(100), Text(301)>>,
                  <<MidMonth(2), Num(200), Text(302)>> >>],
     \* a rep column without the columns the rep table sums
     [columns |-> <<Hdr_Sale_Representative, Hdr_Total_Values>>,
      rows |-> << <<Text(1), Num(100)>> >>],
     \* dates without revenue
     [columns |-> <<Hdr_Order_Date>>, rows |-> << <<MidMonth(1)>> >>],
     \* two headers that both become TOTAL_VALUES
     [columns |-> <<Hdr_Total_Values, Hdr_total_values_padded>>,
      rows |-> << <<Num(100), Num(100)>> >>]}

MainSkuFiles ==
    {[columns |-> <<Hdr_Sku, Hdr_Quantity, Hdr_unit_price, Hdr_line_total>>,
      rows |-> << <<Text(1), Num(1), Num(2), Num(2)>>,
                  <<Text(2), Num(1), Num(3), Num(3)>> >>],
     \* no SKU column
     [columns |-> <<Hdr_Quantity, Hdr_unit_price>>,
      rows |-> << <<Num(1), Num(2)>> >>],
     \* a SKU column without the columns the SKU table sums
     [columns |-> <<Hdr_Sku>>, rows |-> << <<Text(1)>> >>],
     \* two headers that both become QUANTITY
     [columns |-> <<Hdr_Quantity, Hdr_order_lines_quantity>>,
      rows |-> << <<Num(1), Num(1)>> >>]}

Init ==
    /\ sales_file \in {<<>>} \cup {<<f>> : f \in MainSalesFiles}
    /\ sku_file \in {<<>>} \cup {<<f>> : f \in MainSkuFiles}
    /\ top_n \in SliderStops
    /\ top_n_cust \in SliderStops
    /\ top_n_sku \in SliderStops
    /\ Entered

Spec ==
    Init /\ [][Next]_vars

\* what the run has rendered, as a set
Rendered ==
    {page[i] : i \in 1..Len(page)}

\* C9: without a sales file the run ends on the upload note, before any
\* loader, filter or metric computation; without a SKU file (the sales file
\* uploaded) nothing of the SKU side ever raises, the Products section shows
\* its note and computes no aggregate, and the run goes on through the
\* Trends section to the footer.
C9_MissingFiles ==
    /\ sales_file = <<>> =>
          /\ pc \in {"start", "returned"}
          /\ df_sales = <<>>
          /\ df_sku = <<>>
          /\ NothingComputed
          /\ exc = "none"
          /\ page = (IF pc = "returned" THEN <<"upload_info">> ELSE <<>>)
    /\ (sales_file # <<>> /\ sku_file = <<>>) =>
          /\ df_sku = <<>>
          /\ sku_perf = <<>>
          /\ exc \notin {"load_sku_data", "sku_perf"}
          /\ "products" \notin Rendered
          /\ pc \in {"tab5", "footer", "done"} =>
                "products_upload_info" \in Rendered
          /\ pc \in {"footer", "done"} => "trends" \in Rendered
          /\ pc = "done" => "footer" \in Rendered
          /\ (pc = "raised" /\ "customers" \in Rendered) =>
                \* the run stopped after the Customers section had begun:
                \* in that section or in Trends, never in Products
                \/ exc = "cust_perf" /\ "products_upload_info" \notin Rendered
                \/ exc = "monthly" /\ "trends" \in Rendered

\* C9 witness: a run without a SKU file has reached the end of main, the
\* Products note shown, the monthly table computed after it
C9_Witness ==
    /\ sales_file # <<>>
    /\ sku_file = <<>>
    /\ pc = "done"
    /\ "products_upload_info" \in Rendered
    /\ monthly # <<>>
    /\ metrics # <<>>

----------------------------------------------------------------------------
(* SpecPairs: runs from the loaded sales file through the filters, the     *)
(* Overview and the Sales Reps section, over files of up to MaxPairRows    *)
(* orders whose customer id, rep or date may be missing.                   *)

MaxPairRows == 2

\* an order that lies 122 days before LastOrder
EarlierOrder ==
    Date(20231001)

\* rows <<rep, revenue, order number, customer id, commission, customer name,
\* order date>>: an empty rep or customer id cell is NaN, a date that does
\* not parse is text
PairRowPool ==
    {<<rep, Num(100), Text(301), cid, Num(1), Text(201), dt>> :
        rep \in {Text(1), NaN},
        cid \in {Text(101), Text(102), NaN},
        dt \in {LastOrder, EarlierOrder, Str}}

RECURSIVE PairRows(_)
PairRows(n) ==
    IF n = 0 THEN {<<>>}
    ELSE {Append(rows, row) : rows \in PairRows(n - 1), row \in PairRowPool}

PairFiles ==
    {[columns |-> <<Hdr_Sale_Representative, Hdr_Total_Values, Hdr_Order_Number,
                    Hdr_Customer_ID, Hdr_total_commission, Hdr_Customer_Name,
                    Hdr_Order_Date>>,
      rows |-> rows] : rows \in UNION {PairRows(n) : n \in 0..MaxPairRows}}

InitPairs ==
    /\ \E file \in PairFiles : Loaded1(file)
    /\ pc = "filters"

SpecPairs ==
    InitPairs /\ [][NextStatus]_vars

\* the rows of the filtered table that hold a valid order date
DatedRows ==
    {r \in 1..Len(df_sales[1].rows) : Col(df_sales[1], ORDER_DATE)[r].k = "date"}

\* the rows of the filtered table that belong to the pair of row i of
\* customer_last
PairRowsOf(i) ==
    {r \in 1..Len(df_sales[1].rows) :
        /\ Col(df_sales[1], CUSTOMER_ID)[r] = customer_last[1][i].CUSTOMER_ID
        /\ Col(df_sales[1], SALE_REPRESENTATIVE)[r] =
                customer_last[1][i].SALE_REPRESENTATIVE}

\* the latest day among the rows R of the filtered table (R holds a dated row)
LatestDay(R) ==
    CHOOSE n \in {Col(df_sales[1], ORDER_DATE)[r].n : r \in R \cap DatedRows} :
        \A r \in R \cap DatedRows : Col(df_sales[1], ORDER_DATE)[r].n <= n

\* every pair with a valid last order stands at a whole, non-negative number
\* of days: from its own latest order to the latest order of the filtered
\* table; and every pair holds one of the four statuses
DaysFromTableMaximum ==
    \A i \in 1..Len(customer_last[1]) :
        LET row == customer_last[1][i]
        IN  /\ row.Status \in {"Recent", "Warm", "Cold", "Lost"}
            /\ row.ORDER_DATE.k = "date" =>
                  /\ PairRowsOf(i) \cap DatedRows # {}
                  /\ row.ORDER_DATE.n = LatestDay(PairRowsOf(i))
                  /\ row.Days_Since.k = "num"
                  /\ row.Days_Since.d = 1
                  /\ row.Days_Since.n >= 0
                  /\ row.Days_Since.n =
                        DayNumber(LatestDay(DOMAIN df_sales[1].rows))
                            - DayNumber(row.ORDER_DATE.n)

\* some pair stands at 0 days and is Recent
SomePairRecent ==
    \E i \in 1..Len(customer_last[1]) :
        /\ customer_last[1][i].Days_Since = Num(0)
        /\ customer_last[1][i].Status = "Recent"

\* the latest order of the filtered table names both its customer and its rep
LatestOrderKeyed ==
    \E r \in DatedRows :
        /\ Col(df_sales[1], ORDER_DATE)[r].n = LatestDay(DOMAIN df_sales[1].rows)
        /\ ~IsNull(Col(df_sales[1], CUSTOMER_ID)[r])
        /\ ~IsNull(Col(df_sales[1], SALE_REPRESENTATIVE)[r])

\* C12 as claimed: the day differences are taken from the latest order date
\* of the filtered table and are non-negative whole numbers, every pair holds
\* one of the four statuses, and whenever the filtered table holds a valid
\* order date some pair is Recent at 0 days.
C12_ReferenceDate ==
    customer_last # <<>> =>
        /\ DaysFromTableMaximum
        /\ DatedRows # {} => SomePairRecent

\* C12 amended: as above, but some pair is Recent at 0 days exactly when the
\* latest valid order date of the filtered table stands in an order that
\* names both its customer and its rep.
C12_ReferenceDateKeyed ==
    customer_last # <<>> =>
        /\ DaysFromTableMaximum
        /\ SomePairRecent <=> (DatedRows # {} /\ LatestOrderKeyed)

\* C12 witness: two pairs, one at the latest order of the table (0 days,
\* Recent), one 122 days behind it (Cold)
C12_Witness ==
    /\ customer_last # <<>>
    /\ Len(customer_last[1]) = 2
    /\ \E i, j \in 1..2 :
          /\ customer_last[1][i].Days_Since = Num(0)
          /\ customer_last[1][i].Status = "Recent"
          /\ customer_last[1][j].Days_Since = Num(122)
          /\ customer_last[1][j].Status = "Cold"

====
